---------------------------- MODULE Spec2Model ----------------------------
(***************************************************************************)
(* ckdu: a du clone that counts hard-linked content once.                  *)
(*                                                                         *)
(* The model follows src/ckdu.c: main probes the root, crawl_tree walks    *)
(* the directory tree depth first, registers every entry in the inode      *)
(* pool (add_to_pool), sums sizes bottom-up, sorts each child chain        *)
(* (sort_siblings) and present_tree prints the result.                     *)
(*                                                                         *)
(* The filesystem is the environment: what opendir, readdir and lstat      *)
(* answer is chosen step by step from small sets.                          *)
(*                                                                         *)
(* 64-bit quantities (dev_t, ino_t, off_t) are kept exactly, as three      *)
(* limbs <<h, m, l>> standing for h * 2^32 + m * 2^16 + l, so that the     *)
(* conversions to the 32-bit int of the two comparators are computed as    *)
(* the compiler computes them (the low 32 bits, two's complement).         *)
(***************************************************************************)
EXTENDS Integers, Sequences, FiniteSets, TLC

VARIABLES
    pc,           \* position of main: "start", "crawl", "present", "done"
    exit_status,  \* -1 while the program runs, then what main returned: 0 or 1
    nodes,        \* the ckdu_tree_entry objects, in allocation order; nodes[1] is pwd_entry
    stack,        \* the active crawl_tree calls, innermost last
    inode_pool,   \* the keys stored by tsearch: <<device, inode>>
    handles,      \* DIR handles: node index -> "open", "closed" or "misused"
    stderr,       \* the diagnostics printed by print_error, in order
    stdout,       \* the lines printed by present_tree_indent, in order
    env,          \* what the filesystem answered so far (history): the root probe,
                  \* the entries listed ([dir, name, ok, after]: readdir answered
                  \* name in directory node dir when `after` nodes existed, and
                  \* lstat succeeded or not), the directories whose opendir failed
                  \* and those whose readdir failed
    calls         \* the add_to_pool calls made so far: [node, key, result] (history)

vars == <<pc, exit_status, nodes, stack, inode_pool, handles, stderr, stdout, env, calls>>

-----------------------------------------------------------------------------
(* Bounds of the model *)

\* readdir answers at most this many entries (other than . and ..) in one run
MaxEntries == 3
\* directories deeper than this below the root are found unreadable or empty
MaxDepth == 3
\* add_to_pool calls in the pool harness
MaxCalls == 3
\* children of the directory handed to sort_siblings in the sort harness
MaxChildren == 2

-----------------------------------------------------------------------------
(* 64-bit numbers in 16-bit limbs *)

Limb == 256 * 256
HalfLimb == 128 * 256

\* the number h * 2^32 + m * 2^16 + l
Num(h, m, l) == <<h, m, l>>

Zero64 == Num(0, 0, 0)

\* x + y in off_t
Add64(x, y) ==
    LET l == x[3] + y[3]
        m == x[2] + y[2] + (l \div Limb)
        h == x[1] + y[1] + (m \div Limb)
    IN  <<h, m % Limb, l % Limb>>

\* x < y as 64-bit numbers
Less64(x, y) ==
    \/ x[1] < y[1]
    \/ x[1] = y[1] /\ x[2] < y[2]
    \/ x[1] = y[1] /\ x[2] = y[2] /\ x[3] < y[3]

\* (int)(x - y): the low 32 bits of the difference, read as two's complement
IntOfDiff(x, y) ==
    LET dl == x[3] - y[3]
        borrow == IF dl < 0 THEN 1 ELSE 0
        l == dl % Limb
        m == (x[2] - y[2] - borrow) % Limb
    IN  IF m < HalfLimb THEN m * Limb + l ELSE (m - Limb) * Limb + l

Sign(i) == IF i < 0 THEN -1 ELSE IF i > 0 THEN 1 ELSE 0

-----------------------------------------------------------------------------
(* Names and strcmp *)

\* the bytes of the names the model uses
Bytes(s) ==
    CASE s = "."    -> <<46>>
      [] s = ".."   -> <<46, 46>>
      [] s = ".git" -> <<46, 103, 105, 116>>
      [] s = "CVS"  -> <<67, 86, 83>>
      [] s = "a"    -> <<97>>
      [] s = "ab"   -> <<97, 98>>
      [] s = "b"    -> <<98>>
      [] OTHER      -> <<>>

\* the i-th byte of the C string s, the terminating NUL included
ByteAt(s, i) == IF i <= Len(Bytes(s)) THEN Bytes(s)[i] ELSE 0

\* strcmp(s, t): the difference of the first bytes that differ, 0 if none
strcmp(s, t) ==
    LET n == (IF Len(Bytes(s)) < Len(Bytes(t)) THEN Len(Bytes(s)) ELSE Len(Bytes(t))) + 1
        D == {i \in 1..n : ByteAt(s, i) # ByteAt(t, i)}
    IN  IF D = {} THEN 0
        ELSE LET i == CHOOSE j \in D : \A k \in D : j <= k
             IN  ByteAt(s, i) - ByteAt(t, i)

\* dirname "/" basename; a path is kept as the sequence of its components
malloc_path_join(dirname, basename) == Append(dirname, basename)

-----------------------------------------------------------------------------
(* Tree entries *)

\* S_ISDIR(entry->mode), as the int 0 or 1
is_dir(entry) == IF entry.mode = "S_IFDIR" THEN 1 ELSE 0

\* initialize_tree_entry with the result of lstat dropped: it always returns 0
initialize_tree_entry_unchecked(basename, props) ==
    [res   |-> 0,
     entry |-> [name             |-> basename,
                device           |-> props.st_dev,
                inode            |-> props.st_ino,
                content_size     |-> props.st_size,
                mode             |-> props.st_mode,
                child            |-> <<>>,
                add_content_size |-> Zero64]]

\* what lstat leaves in a ckdu_tree_entry, and its return value
initialize_tree_entry(basename, props) ==
    [res   |-> IF props.ok THEN 0 ELSE -1,
     entry |-> [name             |-> basename,
                device           |-> props.st_dev,
                inode            |-> props.st_ino,
                content_size     |-> props.st_size,
                mode             |-> props.st_mode,
                child            |-> <<>>,
                add_content_size |-> Zero64]]

\* content_size + extra.dir.add_content_size, the total the sorter compares
TotalSize(entry) == Add64(entry.content_size, entry.add_content_size)

-----------------------------------------------------------------------------
(* Sibling sorter *)

compare_siblings(a, b) ==
    LET diff_dir == is_dir(b) - is_dir(a)
        diff_size == IntOfDiff(TotalSize(b), TotalSize(a))
    IN  IF diff_dir # 0 THEN diff_dir
        ELSE IF diff_size # 0 THEN diff_size
        ELSE strcmp(a.name, b.name)

\* the comparator orders the entries E consistently (what qsort requires)
SiblingOrderConsistent(E) ==
    /\ \A a, b \in E : Sign(compare_siblings(a, b)) = - Sign(compare_siblings(b, a))
    /\ \A a, b, c \in E :
          compare_siblings(a, b) <= 0 /\ compare_siblings(b, c) <= 0
              => compare_siblings(a, c) <= 0

ArrayOrders(n) == {p \in [1..n -> 1..n] : \A i, j \in 1..n : p[i] = p[j] => i = j}

\* qsort(array, n, size, compare_siblings): the arrays it may leave. With a
\* consistent comparator the result is sorted (equal elements in any order);
\* with an inconsistent one the C library promises no particular order.
qsort(ns, array) ==
    LET n == Len(array)
        P == {[i \in 1..n |-> array[p[i]]] : p \in ArrayOrders(n)}
    IN  IF SiblingOrderConsistent({ns[array[i]] : i \in 1..n})
        THEN {s \in P : \A i, j \in 1..n :
                         i < j => compare_siblings(ns[s[i]], ns[s[j]]) <= 0}
        ELSE P

\* sort_siblings(parent, child_count): the child chains it may leave
sort_siblings(ns, parent, child_count) ==
    IF child_count = 0 THEN {ns[parent].child}
    ELSE qsort(ns, SubSeq(ns[parent].child, 1, child_count))

-----------------------------------------------------------------------------
(* Identity pool *)

compare_trees_id_wise(a, b) ==
    LET dev_diff == IntOfDiff(a[1], b[1])
    IN  IF dev_diff # 0 THEN dev_diff ELSE IntOfDiff(a[2], b[2])

\* the comparator orders the keys K consistently (what tsearch requires)
IdOrderConsistent(K) ==
    /\ \A a, b \in K : Sign(compare_trees_id_wise(a, b)) = - Sign(compare_trees_id_wise(b, a))
    /\ \A a, b, c \in K :
          compare_trees_id_wise(a, b) <= 0 /\ compare_trees_id_wise(b, c) <= 0
              => compare_trees_id_wise(a, c) <= 0

\* the stored keys the comparator reports equal to key
PoolMatches(pool, key) == {k \in pool : compare_trees_id_wise(key, k) = 0}

\* tfind(key, inode_pool, compare_trees_id_wise): whether a node is found.
\* A node can only be found if the comparator answers 0 for it; the search
\* reaches it for certain only if the comparator is a consistent order.
tfind(pool, key) ==
    IF PoolMatches(pool, key) = {} THEN {FALSE}
    ELSE IF IdOrderConsistent(pool \cup {key}) THEN {TRUE}
    ELSE {TRUE, FALSE}

\* tsearch(key, inode_pool, compare_trees_id_wise): the pools it may leave
tsearch(pool, key) ==
    IF PoolMatches(pool, key) = {} THEN {pool \cup {key}}
    ELSE IF IdOrderConsistent(pool \cup {key}) THEN {pool}
    ELSE {pool, pool \cup {key}}

\* add_to_pool without the tfind: every entry is taken for new
add_to_pool_always_new(pool, key) == {[result |-> TRUE, pool |-> pool \cup {key}]}

\* add_to_pool(inode_pool, entry): the possible <<return value, pool>> pairs
add_to_pool(pool, key) ==
    {[result |-> FALSE, pool |-> pool] : f \in {g \in tfind(pool, key) : g}}
    \cup
    {[result |-> TRUE, pool |-> q] :
         q \in IF FALSE \in tfind(pool, key) THEN tsearch(pool, key) ELSE {}}

\* the key of a tree entry
IdOf(entry) == <<entry.device, entry.inode>>

-----------------------------------------------------------------------------
(* The filesystem, as the program meets it *)

\* the path given on the command line
RootPath == <<"root">>

\* the names readdir may answer, besides "." and ".."
Names == {"a", "b", ".git"}

DotNames == {".", ".."}

\* regular files: two inodes with the same number on two devices
FileProps ==
    {[ok |-> TRUE, st_dev |-> Num(0, 0, 1), st_ino |-> Num(0, 0, 1),
      st_size |-> Num(0, 0, 10), st_mode |-> "S_IFREG"],
     [ok |-> TRUE, st_dev |-> Num(0, 0, 2), st_ino |-> Num(0, 0, 1),
      st_size |-> Num(0, 0, 5), st_mode |-> "S_IFREG"]}

\* a directory: no directory has a second link, so the k-th entry of the
\* run, when a directory, has an inode of its own
DirProps(k) ==
    [ok |-> TRUE, st_dev |-> Num(0, 0, 1), st_ino |-> Num(0, 0, 100 + k),
     st_size |-> Num(0, 0, 4096), st_mode |-> "S_IFDIR"]

\* lstat failed: props keeps whatever the stack held, which nothing reads
FailedProps ==
    [ok |-> FALSE, st_dev |-> Zero64, st_ino |-> Zero64,
     st_size |-> Zero64, st_mode |-> "S_IFREG"]

\* what lstat may answer for the k-th entry of the run, named d_name: in
\* the filesystems of the model ".git" is a directory that can be probed,
\* "b" is not a directory and "a" may be anything
Props(k, d_name) ==
    CASE d_name = ".git" -> {DirProps(k)}
      [] d_name = "b"    -> FileProps \cup {FailedProps}
      [] OTHER           -> FileProps \cup {DirProps(k), FailedProps}

-----------------------------------------------------------------------------
(* Error reporting *)

\* print_error(code, action, dirname, basename, ...): one line on stderr
print_error(action, dirname, basename) ==
    [action |-> action, dirname |-> dirname, basename |-> basename]

handle_stat_error(dirname, basename) == print_error("statting", dirname, basename)

handle_readdir_error(dirname) == print_error("reading", dirname, "")

\* handle_opendir_error naming the command-line path instead of dirname
handle_opendir_error_root_path(dirname) == print_error("opening", RootPath, "")

handle_opendir_error(dirname) == print_error("opening", dirname, "")

-----------------------------------------------------------------------------
(* Renderer *)

\* the names of the blacklist
blacklist == {"autom4te.cache", ".git", ".svn", "CVS"}

\* is_boring_folder with an empty blacklist
is_boring_folder_never(basename) == FALSE

is_boring_folder(basename) == basename \in blacklist

\* 2^p as a 64-bit number, for p in 0..62
Pow2(p) ==
    IF p < 16 THEN Num(0, 0, 2^p)
    ELSE IF p < 32 THEN Num(0, 2^(p - 16), 0)
    ELSE Num(2^(p - 32), 0, 0)

\* the number of bits of the non-negative integer i
RECURSIVE BitLength(_)
BitLength(i) == IF i = 0 THEN 0 ELSE 1 + BitLength(i \div 2)

\* double float_number = int_number: the nearest number with a 53-bit
\* significand, ties to the even significand.  A double is written
\* [sig, exp] and stands for sig * 2^exp.
double_of(int_number) ==
    LET h == int_number[1]
        m == int_number[2]
        l == int_number[3]
        s == BitLength(h) - 21
    IN  IF s <= 0 THEN [sig |-> int_number, exp |-> 0]
        ELSE LET cut  == 2^s
                 up   == 2^(16 - s)
                 q    == Num(h \div cut,
                             (m \div cut) + (h % cut) * up,
                             (l \div cut) + (m % cut) * up)
                 r    == l % cut
                 half == cut \div 2
                 away == r > half \/ (r = half /\ q[3] % 2 = 1)
             IN  [sig |-> IF away THEN Add64(q, Num(0, 0, 1)) ELSE q,
                  exp |-> s]

\* float_number >= divisor, for divisor = 1024
double_greater_or_equal(float_number, divisor) ==
    /\ divisor = 1024
    /\ 10 - float_number.exp < 63
    /\ ~ Less64(float_number.sig, Pow2(10 - float_number.exp))

\* float_number > divisor, for divisor = 1024
double_greater(float_number, divisor) ==
    /\ divisor = 1024
    /\ 10 - float_number.exp < 63
    /\ Less64(Pow2(10 - float_number.exp), float_number.sig)

\* float_number / divisor, for divisor = 1024: exact in a double
double_divide(float_number, divisor) ==
    [float_number EXCEPT !.exp = @ - 10]

\* units[exponent] is the (exponent + 1)-th element
units == <<"NULL", "  B", "kiB", "MiB", "GiB", "TiB", "PiB", "EiB">>

\* the while loop of malloc_humanize, then its assertion and its sprintf:
\* the text is given by the number and the unit handed to "%6.1f%s";
\* a failed assertion aborts the program
RECURSIVE humanize_loop(_, _, _)
humanize_loop(float_number, divisor, exponent) ==
    IF double_greater(float_number, divisor)
    THEN humanize_loop(double_divide(float_number, divisor), divisor, exponent + 1)
    ELSE [float_number |-> float_number,
          exponent     |-> exponent,
          unit         |-> IF exponent < Len(units)
                           THEN units[exponent + 1] ELSE "SIGABRT"]

malloc_humanize(int_number) == humanize_loop(double_of(int_number), 1024, 1)

\* bytes_content of present_tree_indent
bytes_content(entry) ==
    Add64(entry.content_size,
          IF is_dir(entry) = 1 THEN entry.add_content_size ELSE Zero64)

\* the lines present_tree_indent(virtual_root, indent) prints; indent is
\* the length of the indentation string
RECURSIVE present_tree_indent(_, _, _)
RECURSIVE present_children(_, _, _, _)
present_children(ns, chain, i, indent) ==
    IF i > Len(chain) THEN <<>>
    ELSE present_tree_indent(ns, chain[i], indent)
             \o present_children(ns, chain, i + 1, indent)

present_tree_indent(ns, n, indent) ==
    LET child_indent_len == indent + 2
        line == [size   |-> bytes_content(ns[n]),
                 size_display |-> malloc_humanize(bytes_content(ns[n])),
                 indent |-> indent,
                 name   |-> ns[n].name,
                 slash  |-> is_dir(ns[n]) = 1]
    IN  <<line>> \o
        (IF is_dir(ns[n]) = 1 /\ ns[n].child # <<>>
         THEN IF is_boring_folder(ns[n].name)
              THEN <<[size |-> "...", size_display |-> "...",
                      indent |-> child_indent_len,
                      name |-> "...", slash |-> FALSE]>>
              ELSE present_children(ns, ns[n].child, 1, child_indent_len)
         ELSE <<>>)

present_tree(ns) == present_tree_indent(ns, 1, 0)

-----------------------------------------------------------------------------
(* The crawl *)

\* the crawl_tree call on top of the stack
Top == stack[Len(stack)]

\* a new crawl_tree(virtual_root, inode_pool, dirname) call, before opendir:
\* its arguments, its position (at), its locals entry (the d_name last
\* answered), prev and child_count, and the names answered so far (seen)
Call(virtual_root, dirname) ==
    [node |-> virtual_root, dirname |-> dirname, at |-> "opendir",
     entry |-> "none", prev |-> 0, child_count |-> 0, seen |-> {}]

\* entries answered by readdir so far in this run, "." and ".." aside
Entries == Cardinality(env.listed)

\* lines 317-323: the node is appended to the child chain and counted
link_child(ns, parent, node) ==
    [ns EXCEPT ![parent].child = Append(@, node)]

\* count_child without lines 334-336: a directory brings its own size only
count_child_own_size_only(ns, parent, node, result) ==
    IF result
    THEN [ns EXCEPT ![parent].add_content_size = Add64(@, ns[node].content_size)]
    ELSE ns

\* lines 331-337: the parent's sum after add_to_pool returned result
count_child(ns, parent, node, result) ==
    IF result
    THEN LET own == Add64(ns[parent].add_content_size, ns[node].content_size)
         IN  [ns EXCEPT ![parent].add_content_size =
                 IF is_dir(ns[node]) = 1
                 THEN Add64(own, ns[node].add_content_size)
                 ELSE own]
    ELSE ns

\* closedir left out: the handle stays as it is
closedir_missing(hs, n) == hs

\* closedir(dir) on the handle of the given directory node
closedir(hs, n) ==
    [hs EXCEPT ![n] = IF @ = "open" THEN "closed" ELSE "misused"]

\* crawl_tree returns: the caller goes on with lines 328-337 for the
\* directory just crawled, or main goes on to present_tree
Return(ns, hs) ==
    LET rest == SubSeq(stack, 1, Len(stack) - 1)
    IN  /\ handles' = hs
        /\ stack' = rest
        /\ IF rest = <<>>
           THEN /\ pc' = "present"
                /\ nodes' = ns
                /\ UNCHANGED <<inode_pool, calls>>
           ELSE /\ pc' = pc
                /\ \E o \in add_to_pool(inode_pool, IdOf(ns[Top.node])) :
                     /\ inode_pool' = o.pool
                     /\ calls' = Append(calls, [node |-> Top.node, key |-> IdOf(ns[Top.node]),
                                             result |-> o.result])
                     /\ nodes' = count_child(ns, rest[Len(rest)].node, Top.node, o.result)

Init ==
    /\ pc = "start"
    /\ exit_status = -1
    /\ nodes = <<>>
    /\ stack = <<>>
    /\ inode_pool = {}
    /\ handles = <<>>
    /\ stderr = <<>>
    /\ stdout = <<>>
    /\ env = [root_probe |-> "none", listed |-> {}, open_failed |-> {}, read_failed |-> {}]
    /\ calls = <<>>

\* main, lines 403-412: the root is probed; if the probe fails the error is
\* reported and the program ends with status 1, else crawl_tree is called
Main ==
    /\ pc = "start"
    /\ \E props \in {DirProps(0), FailedProps} :
         LET r == initialize_tree_entry(".", props)
         IN  /\ env' = [env EXCEPT !.root_probe = IF props.ok THEN "ok" ELSE "failed"]
             /\ IF r.res # 0
                THEN /\ stderr' = Append(stderr, handle_stat_error(RootPath, "."))
                     /\ exit_status' = 1
                     /\ pc' = "done"
                     /\ UNCHANGED <<nodes, handles, stack>>
                ELSE /\ nodes' = <<r.entry>>
                     /\ handles' = <<"none">>
                     /\ stack' = <<Call(1, RootPath)>>
                     /\ pc' = "crawl"
                     /\ UNCHANGED <<stderr, exit_status>>
    /\ UNCHANGED <<inode_pool, stdout, calls>>

\* lines 295-300, opendir succeeds
Opendir ==
    /\ pc = "crawl"
    /\ Top.at = "opendir"
    /\ handles' = [handles EXCEPT ![Top.node] = IF @ = "none" THEN "open" ELSE "misused"]
    /\ stack' = [stack EXCEPT ![Len(stack)].at = "readdir"]
    /\ UNCHANGED <<pc, exit_status, nodes, inode_pool, stderr, stdout, env, calls>>

\* lines 295-300, opendir fails: the error is reported and the call returns
OpendirFails ==
    /\ pc = "crawl"
    /\ Top.at = "opendir"
    /\ stderr' = Append(stderr, handle_opendir_error(Top.dirname))
    /\ env' = [env EXCEPT !.open_failed = @ \cup {Top.node}]
    /\ Return(nodes, handles)
    /\ UNCHANGED <<exit_status, stdout>>

\* lines 302-310: readdir answers "." or "..", which is skipped
ReaddirDot ==
    /\ pc = "crawl"
    /\ Top.at = "readdir"
    /\ \E d_name \in DotNames :
         /\ ~ (strcmp(d_name, ".") # 0 /\ strcmp(d_name, "..") # 0)
         /\ stack' = [stack EXCEPT ![Len(stack)].entry = d_name]
    /\ UNCHANGED <<pc, exit_status, nodes, inode_pool, handles, stderr, stdout, env, calls>>

\* lines 302-338: readdir answers an entry, which is probed and, if the
\* probe succeeds, linked, crawled if a directory, registered and counted
ReaddirEntry ==
    /\ pc = "crawl"
    /\ Top.at = "readdir"
    /\ Entries < MaxEntries
    /\ Len(stack) <= MaxDepth
    /\ \E d_name \in Names \ Top.seen : \E props \in Props(Len(nodes), d_name) :
         LET r == initialize_tree_entry(d_name, props)
             node == Len(nodes) + 1
             linked == link_child(Append(nodes, r.entry), Top.node, node)
             frame == [Top EXCEPT !.entry = d_name, !.seen = @ \cup {d_name}]
             counted == [frame EXCEPT !.prev = node, !.child_count = @ + 1]
         IN  /\ strcmp(d_name, ".") # 0 /\ strcmp(d_name, "..") # 0
             /\ env' = [env EXCEPT !.listed =
                           @ \cup {[dir |-> Top.node, name |-> d_name,
                                    ok |-> props.ok, after |-> Len(nodes)]}]
             /\ IF r.res # 0
                THEN /\ stderr' = Append(stderr, handle_stat_error(Top.dirname, d_name))
                     /\ stack' = [stack EXCEPT ![Len(stack)] = frame]
                     /\ UNCHANGED <<nodes, handles, inode_pool, calls>>
                ELSE IF is_dir(r.entry) = 1
                THEN /\ nodes' = linked
                     /\ handles' = Append(handles, "none")
                     /\ stack' = Append([stack EXCEPT ![Len(stack)] = counted],
                                        Call(node, malloc_path_join(Top.dirname, d_name)))
                     /\ UNCHANGED <<stderr, inode_pool, calls>>
                ELSE /\ handles' = Append(handles, "none")
                     /\ stack' = [stack EXCEPT ![Len(stack)] = counted]
                     /\ \E o \in add_to_pool(inode_pool, IdOf(r.entry)) :
                          /\ inode_pool' = o.pool
                          /\ calls' = Append(calls, [node |-> node, key |-> IdOf(r.entry),
                                                  result |-> o.result])
                          /\ nodes' = count_child(linked, Top.node, node, o.result)
                     /\ UNCHANGED stderr
    /\ UNCHANGED <<pc, exit_status, stdout>>

\* lines 341-345: the loop is over; the chain is sorted and the handle closed
Finish(errs) ==
    /\ stderr' = errs
    /\ \E chain \in sort_siblings(nodes, Top.node, Top.child_count) :
         Return([nodes EXCEPT ![Top.node].child = chain], closedir(handles, Top.node))
    /\ UNCHANGED <<exit_status, stdout>>

\* lines 302-308 and 341-345: readdir answers NULL with errno 0
ReaddirEnd ==
    /\ pc = "crawl"
    /\ Top.at = "readdir"
    /\ Finish(stderr)
    /\ UNCHANGED env

\* lines 302-308 and 341-345: readdir answers NULL with errno set
ReaddirFails ==
    /\ pc = "crawl"
    /\ Top.at = "readdir"
    /\ env' = [env EXCEPT !.read_failed = @ \cup {Top.node}]
    /\ Finish(Append(stderr, handle_opendir_error(Top.dirname)))

\* main, lines 413-416: the tree is printed, tdestroy empties the pool and
\* the program ends with status 0
Present ==
    /\ pc = "present"
    /\ stdout' = present_tree(nodes)
    /\ inode_pool' = {}
    /\ exit_status' = 0
    /\ pc' = "done"
    /\ UNCHANGED <<nodes, stack, handles, stderr, env, calls>>

Next ==
    \/ Main
    \/ Opendir
    \/ OpendirFails
    \/ ReaddirDot
    \/ ReaddirEntry
    \/ ReaddirEnd
    \/ ReaddirFails
    \/ Present

Spec == Init /\ [][Next]_vars

-----------------------------------------------------------------------------
(* The identity pool on its own: add_to_pool over the full width of dev_t
   and ino_t *)

\* device and inode numbers that differ by 2^31 and by 2^32
PoolDevices == {Num(0, 0, 1), Num(1, 0, 1)}
PoolInodes == {Num(0, 0, 1), Num(0, HalfLimb, 1), Num(1, 0, 1)}
PoolKeys == PoolDevices \X PoolInodes

InitPool ==
    /\ pc = "pool"
    /\ exit_status = -1
    /\ nodes = <<>>
    /\ stack = <<>>
    /\ inode_pool = {}
    /\ handles = <<>>
    /\ stderr = <<>>
    /\ stdout = <<>>
    /\ env = [root_probe |-> "none", listed |-> {}, open_failed |-> {}, read_failed |-> {}]
    /\ calls = <<>>

\* one add_to_pool(&inode_pool, entry) call
PoolCall ==
    /\ pc = "pool"
    /\ Len(calls) < MaxCalls
    /\ \E key \in PoolKeys : \E o \in add_to_pool(inode_pool, key) :
         /\ inode_pool' = o.pool
         /\ calls' = Append(calls, [node |-> 0, key |-> key, result |-> o.result])
    /\ UNCHANGED <<pc, exit_status, nodes, stack, handles, stderr, stdout, env>>

NextPool == PoolCall

SpecPool == InitPool /\ [][NextPool]_vars

-----------------------------------------------------------------------------
(* The sibling sorter on its own: sort_siblings over totals of the full
   width of off_t *)

SortNames == {"a", "ab", "b"}

\* content sizes that differ by 2^31 and by 2^32
SortSizes == {Num(0, 0, 10), Num(0, HalfLimb, 10), Num(1, 0, 10)}

\* the children a directory may have when sort_siblings is called
SortEntries ==
    {[name |-> n, device |-> Num(0, 0, 1), inode |-> Num(0, 0, 4 * Bytes(n)[1] + Len(Bytes(n))),
      content_size |-> sz, mode |-> "S_IFREG", child |-> <<>>,
      add_content_size |-> Zero64] : n \in SortNames, sz \in SortSizes}
    \cup
    {[name |-> n, device |-> Num(0, 0, 1), inode |-> Num(0, 0, 4 * Bytes(n)[1] + Len(Bytes(n))),
      content_size |-> sz, mode |-> "S_IFDIR", child |-> <<>>,
      add_content_size |-> add] :
         n \in SortNames, sz \in SortSizes, add \in {Zero64, Num(0, 0, 5)}}

InitSort ==
    /\ pc = "sort"
    /\ exit_status = -1
    /\ \E k \in 1..MaxChildren : \E children \in [1..k -> SortEntries] :
         /\ \A i, j \in 1..k : children[i].name = children[j].name => i = j
         /\ nodes = <<[initialize_tree_entry(".", DirProps(0)).entry
                          EXCEPT !.child = [i \in 1..k |-> i + 1]]>> \o children
    /\ stack = <<>>
    /\ inode_pool = {}
    /\ handles = <<>>
    /\ stderr = <<>>
    /\ stdout = <<>>
    /\ env = [root_probe |-> "none", listed |-> {}, open_failed |-> {}, read_failed |-> {}]
    /\ calls = <<>>

\* one sort_siblings(parent, child_count) call on the directory
SortSiblings ==
    /\ pc = "sort"
    /\ \E chain \in sort_siblings(nodes, 1, Len(nodes[1].child)) :
         nodes' = [nodes EXCEPT ![1].child = chain]
    /\ pc' = "sorted"
    /\ UNCHANGED <<exit_status, stack, inode_pool, handles, stderr, stdout, env, calls>>

NextSort == SortSiblings

SpecSort == InitSort /\ [][NextSort]_vars

-----------------------------------------------------------------------------
(* The renderer on its own: one entry of any size, printed by main *)

\* 2^p - 1 as a 64-bit number, for p in 0..63
Ones(p) ==
    IF p <= 16 THEN Num(0, 0, 2^p - 1)
    ELSE IF p <= 32 THEN Num(0, 2^(p - 16) - 1, Limb - 1)
    ELSE Num((2^(p - 33) - 1) * 2 + 1, Limb - 1, Limb - 1)

\* the sizes lstat may report for the entry: around every power of two of
\* off_t (the thresholds of the units among them), around the steps of
\* the 53-bit significand, and the largest off_t
HumanizeSizes ==
    {Pow2(p) : p \in 0..62}
    \cup {Ones(p) : p \in 0..63}
    \cup {Add64(Pow2(p), Num(0, 0, d)) : p \in 8..62, d \in {1, 3, 127, 128, 129}}

InitHumanize ==
    /\ pc = "present"
    /\ exit_status = -1
    /\ \E size \in HumanizeSizes :
         nodes = <<[initialize_tree_entry(".", DirProps(0)).entry
                       EXCEPT !.content_size = size]>>
    /\ stack = <<>>
    /\ inode_pool = {}
    /\ handles = <<"closed">>
    /\ stderr = <<>>
    /\ stdout = <<>>
    /\ env = [root_probe |-> "ok", listed |-> {}, open_failed |-> {}, read_failed |-> {}]
    /\ calls = <<>>

NextHumanize == Present

SpecHumanize == InitHumanize /\ [][NextHumanize]_vars

-----------------------------------------------------------------------------
(* The tree, for stating the properties *)

NodeIds == 1..Len(nodes)

\* c is in the child chain of p
IsChild(p, c) == \E i \in DOMAIN nodes[p].child : nodes[p].child[i] = c

ParentOf(c) == CHOOSE p \in NodeIds : IsChild(p, c)

RECURSIVE Ancestors(_)
Ancestors(n) == IF n = 1 THEN {} ELSE {ParentOf(n)} \cup Ancestors(ParentOf(n))

Descendants(d) == {n \in NodeIds : d \in Ancestors(n)}

Depth(n) == Cardinality(Ancestors(n))

RECURSIVE PathOf(_)
PathOf(n) == IF n = 1 THEN RootPath ELSE Append(PathOf(ParentOf(n)), nodes[n].name)

IsDirectory(n) == nodes[n].mode = "S_IFDIR"

\* the sum of the content sizes of the nodes of S
RECURSIVE SumSizes(_)
SumSizes(S) ==
    IF S = {} THEN Zero64
    ELSE LET n == CHOOSE m \in S : TRUE
         IN  Add64(nodes[n].content_size, SumSizes(S \ {n}))

\* the crawl is over and the tree built
Crawled == pc \in {"present", "done"} /\ env.root_probe = "ok"

\* nodes are allocated in crawl order: a smaller index was met earlier

\* the pairs carried by the descendants of d
PairsBelow(d) == {IdOf(nodes[n]) : n \in Descendants(d)}

\* the first descendant of d, in crawl order, that carries pair p
FirstBelow(d, p) ==
    CHOOSE n \in Descendants(d) :
        /\ IdOf(nodes[n]) = p
        /\ \A m \in Descendants(d) : IdOf(nodes[m]) = p => n <= m

\* pair p was registered before the subtree of d was entered: an entry met
\* before d, which is not one of the directories still being crawled then,
\* carries it
RegisteredBefore(d, p) ==
    \E m \in 2..(d - 1) : m \notin Ancestors(d) /\ IdOf(nodes[m]) = p


\* add_to_pool was called for node n / answered true for it
Registered(n) == \E i \in DOMAIN calls : calls[i].node = n
Counted(n) == \E i \in DOMAIN calls : calls[i].node = n /\ calls[i].result

\* n is the first node of the run, in crawl order, that carries its pair
FirstMet(n) == \A m \in 2..(n - 1) : IdOf(nodes[m]) # IdOf(nodes[n])

\* a directory whose name is on the blacklist
Boring(n) ==
    IsDirectory(n) /\ nodes[n].name \in {"autom4te.cache", ".git", ".svn", "CVS"}

\* no ancestor of n is collapsed by the renderer
Visible(n) == \A a \in Ancestors(n) : ~ Boring(a)

\* the line of node n in the report: two spaces of indentation per level
LineOf(n) ==
    [size   |-> IF IsDirectory(n)
                THEN Add64(nodes[n].content_size, nodes[n].add_content_size)
                ELSE nodes[n].content_size,
     size_display |-> malloc_humanize(bytes_content(nodes[n])),
     indent |-> 2 * Depth(n),
     name   |-> nodes[n].name,
     slash  |-> IsDirectory(n)]

\* the ellipsis line beneath the collapsed directory n
EllipsisOf(n) ==
    [size |-> "...", size_display |-> "...", indent |-> 2 * Depth(n) + 2,
     name |-> "...", slash |-> FALSE]

Rendered(n) == \E i \in DOMAIN stdout : stdout[i] = LineOf(n)

\* the nodes below and including n in pre-order, following the child chains
RECURSIVE PreOrder(_)
RECURSIVE PreOrderChain(_, _)
PreOrderChain(chain, i) ==
    IF i > Len(chain) THEN <<>>
    ELSE PreOrder(chain[i]) \o PreOrderChain(chain, i + 1)
PreOrder(n) == <<n>> \o PreOrderChain(nodes[n].child, 1)

\* the report: every visible node once, in pre-order, and one ellipsis line
\* right after each visible blacklisted directory that has a child
RECURSIVE ReportOf(_, _)
ReportOf(order, i) ==
    IF i > Len(order) THEN <<>>
    ELSE LET n == order[i]
         IN  (IF ~ Visible(n) THEN <<>>
              ELSE IF Boring(n) /\ nodes[n].child # <<>>
              THEN <<LineOf(n), EllipsisOf(n)>>
              ELSE <<LineOf(n)>>)
             \o ReportOf(order, i + 1)

\* the aggregate of directory d is the sum of what its counted children
\* brought: their content size and, for directories, their own aggregate
RECURSIVE SumTotals(_)
SumTotals(S) ==
    IF S = {} THEN Zero64
    ELSE LET n == CHOOSE m \in S : TRUE
         IN  Add64(LineOf(n).size, SumTotals(S \ {n}))

ChildrenOf(d) == {nodes[d].child[i] : i \in DOMAIN nodes[d].child}

\* the entries readdir answered in directory d for which lstat succeeded
ListedOk(d) == {e \in env.listed : e.dir = d /\ e.ok}

\* the node made for the listed entry e
NodeOf(e) == e.after + 1

-----------------------------------------------------------------------------
(* C1 *)

\* C1: once the crawl is over, the aggregate size of every directory is the
\* sum, over the distinct (device, inode) pairs among its descendants that
\* were not registered before its subtree was entered, of the content size
\* of the first descendant in crawl order that carries the pair.
C1_AggregateIsSumOfFirstMet ==
    Crawled =>
        \A d \in NodeIds :
            IsDirectory(d) =>
                nodes[d].add_content_size =
                    SumSizes({FirstBelow(d, p) :
                                 p \in {q \in PairsBelow(d) : ~ RegisteredBefore(d, q)}})

\* a finished run with a subdirectory whose only file was registered before
\* the subdirectory was entered, so that it counts nothing there
C1_Witness ==
    /\ Crawled
    /\ \E d \in NodeIds \ {1} :
         /\ IsDirectory(d)
         /\ \E n \in Descendants(d) : RegisteredBefore(d, IdOf(nodes[n]))
         /\ nodes[d].add_content_size = Zero64
         /\ nodes[1].add_content_size = Num(0, 0, 4096 + 10)

-----------------------------------------------------------------------------
(* C3 *)

\* C3: add_to_pool returns true exactly when no earlier call registered the
\* same (device, inode) pair, pairs compared in full width, and every pair
\* registered stays in the pool.
C3_PoolIsExact ==
    \A i \in DOMAIN calls :
        /\ calls[i].result = (\A j \in 1..(i - 1) : calls[j].key # calls[i].key)
        /\ calls[i].key \in inode_pool

-----------------------------------------------------------------------------
(* C4 *)

\* s precedes t in byte-wise order
NameLess(s, t) ==
    \E i \in 1..(Len(Bytes(s)) + 1) :
        /\ ByteAt(s, i) < ByteAt(t, i)
        /\ \A k \in 1..(i - 1) : ByteAt(s, k) = ByteAt(t, k)

\* the three-key rule: a must come before b
RuleBefore(a, b) ==
    \/ a.mode = "S_IFDIR" /\ b.mode # "S_IFDIR"
    \/ /\ (a.mode = "S_IFDIR") = (b.mode = "S_IFDIR")
       /\ \/ Less64(TotalSize(b), TotalSize(a))
          \/ TotalSize(a) = TotalSize(b) /\ NameLess(a.name, b.name)

\* C4: after sort_siblings the child chain is in the order of the three-key
\* rule (directories first, then larger total first over the full width of
\* off_t, then ascending byte-wise name), and the comparator is a strict
\* total order on the children: never 0 for two children, antisymmetric,
\* transitive.
C4_SortedByThreeKeyRule ==
    pc = "sorted" =>
        LET chain == nodes[1].child
            E == {nodes[chain[i]] : i \in DOMAIN chain}
        IN  /\ \A i, j \in DOMAIN chain :
                  i < j => RuleBefore(nodes[chain[i]], nodes[chain[j]])
            /\ \A a, b \in E : a # b => compare_siblings(a, b) # 0
            /\ SiblingOrderConsistent(E)

-----------------------------------------------------------------------------
(* C2 *)

-----------------------------------------------------------------------------
(* C5 *)

-----------------------------------------------------------------------------
(* C6 *)

\* C6: when readdir fails in a directory, exactly one diagnostic is printed
\* for that directory and its action word is "reading"; the children found
\* before stay in the chain, sorted, and in the aggregate, and the crawl of
\* the enclosing directories goes on.
C6_ReadFailureSaysReading ==
    Crawled =>
        \A n \in env.read_failed :
            /\ Cardinality({i \in DOMAIN stderr :
                               /\ stderr[i].dirname = PathOf(n)
                               /\ stderr[i].basename = ""}) = 1
            /\ \A i \in DOMAIN stderr :
                   (stderr[i].dirname = PathOf(n) /\ stderr[i].basename = "")
                       => stderr[i].action = "reading"
            /\ ChildrenOf(n) = {NodeOf(e) : e \in ListedOk(n)}
            /\ \A i, j \in DOMAIN nodes[n].child :
                   i < j => RuleBefore(nodes[nodes[n].child[i]], nodes[nodes[n].child[j]])
            /\ nodes[n].add_content_size = SumTotals({c \in ChildrenOf(n) : Counted(c)})
            /\ handles[n] = "closed"

-----------------------------------------------------------------------------
(* C7 *)

\* C7: an entry whose lstat fails gets a "statting" diagnostic and is
\* skipped: no node is made for it, the chain of its directory has no child
\* of that name, child_count does not count it, add_to_pool is never called
\* for it, no aggregate contains it and no line of the report is its line;
\* the entries listed before and after it in the directory are nodes of
\* the chain as usual.
C7_StatFailureSkipsEntry ==
    env.root_probe = "ok" =>
        /\ \A e \in env.listed :
               IF e.ok
               THEN /\ NodeOf(e) \in ChildrenOf(e.dir)
                    /\ nodes[NodeOf(e)].name = e.name
               ELSE /\ \E i \in DOMAIN stderr :
                          /\ stderr[i].action = "statting"
                          /\ stderr[i].dirname = PathOf(e.dir)
                          /\ stderr[i].basename = e.name
                    /\ \A c \in ChildrenOf(e.dir) : nodes[c].name # e.name
        /\ Len(nodes) = 1 + Cardinality({e \in env.listed : e.ok})
        /\ \A i \in DOMAIN stack :
               /\ stack[i].child_count = Cardinality(ListedOk(stack[i].node))
               /\ stack[i].child_count = Len(nodes[stack[i].node].child)
        /\ \A i \in DOMAIN calls : calls[i].node \in 2..Len(nodes)
        /\ \A d \in NodeIds :
               (IsDirectory(d) /\ \A i \in DOMAIN stack : stack[i].node # d) =>
                   nodes[d].add_content_size
                       = SumSizes({x \in Descendants(d) : Counted(x)})
        /\ \A i \in DOMAIN stdout :
               stdout[i].name = "..." \/ \E n \in NodeIds : stdout[i] = LineOf(n)

\* a finished run in which lstat failed for an entry listed between two
\* entries of the same directory that became nodes and were rendered
C7_Witness ==
    /\ pc = "done"
    /\ \E e \in env.listed : \E e1, e2 \in ListedOk(e.dir) :
         /\ ~ e.ok
         /\ e1.after < e.after /\ e2.after >= e.after
         /\ Rendered(NodeOf(e1)) /\ Rendered(NodeOf(e2))

-----------------------------------------------------------------------------
(* C8 *)

\* C8: the exit status is nonzero exactly when the root cannot be probed;
\* then the failure is reported and the program ends with no directory
\* opened, nothing registered and nothing rendered. In every other run the
\* tree is crawled and rendered and the status is 0, whatever errors were
\* reported below the root.
C8_ExitStatus ==
    pc \in {"start", "crawl", "present", "done"} =>
        /\ (exit_status = -1) = (pc # "done")
        /\ pc = "done" => ((exit_status # 0) = (env.root_probe = "failed"))
        /\ env.root_probe = "failed" =>
               /\ pc = "done"
               /\ Len(stderr) = 1
               /\ stderr[1].action = "statting" /\ stderr[1].dirname = RootPath
               /\ \A n \in DOMAIN handles : handles[n] = "none"
               /\ env.open_failed = {} /\ env.listed = {}
               /\ calls = <<>> /\ inode_pool = {}
               /\ stdout = <<>>
        /\ (pc = "done" /\ env.root_probe = "ok") =>
               /\ exit_status = 0
               /\ handles[1] = "closed" \/ 1 \in env.open_failed
               /\ stdout # <<>> /\ stdout[1] = LineOf(1)

\* the run that ends with status 1
C8_Witness == pc = "done" /\ exit_status = 1 /\ env.root_probe = "failed"

-----------------------------------------------------------------------------
(* C9 *)

\* C9: a directory handle is open only while the crawl_tree call that
\* opened it is running; none is open once the top-level crawl has
\* returned; none is closed twice or closed without having been opened.
C9_HandlesAreScoped ==
    /\ \A n \in DOMAIN handles :
           /\ handles[n] # "misused"
           /\ handles[n] = "open" =>
                  \E i \in DOMAIN stack : stack[i].node = n /\ stack[i].at = "readdir"
           /\ (n \in env.read_failed /\ \A i \in DOMAIN stack : stack[i].node # n)
                  => handles[n] = "closed"
    /\ \A i \in DOMAIN stack : stack[i].at = "readdir" => handles[stack[i].node] = "open"
    /\ pc \in {"present", "done"} => \A n \in DOMAIN handles : handles[n] # "open"

\* a finished run in which a nested directory was closed after its readdir
\* failed, another could not be opened, and the root was closed
C9_Witness ==
    /\ pc = "done"
    /\ env.root_probe = "ok"
    /\ handles[1] = "closed"
    /\ \E n \in env.read_failed \ {1} : handles[n] = "closed" /\ nodes[n].child # <<>>
    /\ env.open_failed # {}

-----------------------------------------------------------------------------
(* C10 *)

\* what every blacklisted directory brings to its parent: it is counted,
\* with its full aggregate
BoringCountedInParent(b) ==
    /\ Counted(b)
    /\ nodes[ParentOf(b)].add_content_size
           = SumTotals({c \in ChildrenOf(ParentOf(b)) : Counted(c)})

\* C10 as stated: every blacklisted directory, at any depth, is counted in
\* its parent with its full aggregate, has its own line, with one ellipsis
\* line two spaces deeper right beneath it when it has a child, and every
\* node without a blacklisted ancestor is printed once, in pre-order.
C10_EveryBoringDirHasItsLine ==
    (pc = "done" /\ env.root_probe = "ok") =>
        /\ \A b \in NodeIds \ {1} :
               Boring(b) =>
                   /\ BoringCountedInParent(b)
                   /\ \E i \in DOMAIN stdout :
                          /\ stdout[i] = LineOf(b)
                          /\ nodes[b].child # <<>> =>
                                 (i < Len(stdout) /\ stdout[i + 1] = EllipsisOf(b))
        /\ stdout = ReportOf(PreOrder(1), 1)

\* C10, amended: every blacklisted directory is counted in its parent with
\* its full aggregate; one that has no blacklisted ancestor has its own
\* line, with one ellipsis line two spaces deeper right beneath it when it
\* has a child; one beneath another blacklisted directory has no line and
\* no ellipsis; every node without a blacklisted ancestor is printed once,
\* in pre-order along the sorted chains, and no other node is printed.
C10_VisibleBoringDirCollapsed ==
    (pc = "done" /\ env.root_probe = "ok") =>
        /\ \A b \in NodeIds \ {1} :
               Boring(b) =>
                   /\ BoringCountedInParent(b)
                   /\ Visible(b) =>
                          \E i \in DOMAIN stdout :
                              /\ stdout[i] = LineOf(b)
                              /\ nodes[b].child # <<>> =>
                                     (i < Len(stdout) /\ stdout[i + 1] = EllipsisOf(b))
        /\ stdout = ReportOf(PreOrder(1), 1)
        /\ Len(stdout) = Cardinality({n \in NodeIds : Visible(n)})
              + Cardinality({n \in NodeIds : Visible(n) /\ Boring(n) /\ nodes[n].child # <<>>})

\* a finished run with a blacklisted directory two levels below the root
\* that holds a file: it has its line and its ellipsis line, and the file
\* has none
C10_Witness ==
    /\ pc = "done"
    /\ \E b \in NodeIds :
         /\ Boring(b) /\ Visible(b) /\ Depth(b) = 2
         /\ nodes[b].add_content_size # Zero64
         /\ nodes[ParentOf(b)].add_content_size
                = Add64(nodes[b].content_size, nodes[b].add_content_size)
         /\ \E i \in DOMAIN stdout : stdout[i] = LineOf(b) /\ stdout[i + 1] = EllipsisOf(b)
         /\ \E c \in ChildrenOf(b) : ~ Rendered(c)

-----------------------------------------------------------------------------
(* The unit of a displayed size *)

\* the lines of the report that show a size: all but the ellipsis lines
SizeLines == {i \in DOMAIN stdout : stdout[i].name # "..."}

\* the binary units, 1024^k for k = 0..6
UnitNames == <<"  B", "kiB", "MiB", "GiB", "TiB", "PiB", "EiB">>

\* n / 1024^k <= 1024 in exact arithmetic, for 0 <= n < 2^63 and k in 0..6
ScaledFits(n, k) == k = 6 \/ ~ Less64(Pow2(10 * (k + 1)), n)

\* the sizes just above 2^60 that become 2^60 in a double
RoundsToPiBLimit(n) ==
    /\ Less64(Pow2(60), n)
    /\ Less64(n, Add64(Pow2(60), Num(0, 0, 129)))

\* C11: for every displayed size n, the unit is the largest of B .. EiB
\* whose scaled value n / 1024^k is <= 1024, and the unit index stays
\* within the table, so the assertion exponent < 8 holds.
C11_LargestUnitThatFits ==
    \A i \in SizeLines :
        LET n == stdout[i].size
            d == stdout[i].size_display
            k == d.exponent - 1
        IN  /\ d.exponent < 8
            /\ k \in 0..6
            /\ d.unit = UnitNames[k + 1]
            /\ ScaledFits(n, k)
            /\ \A j \in 0..6 : ScaledFits(n, j) => j <= k

\* C11, amended: for every displayed size n, the unit is the smallest of
\* B .. EiB whose scaled value n / 1024^k is <= 1024, except that the sizes
\* 2^60 + 1 .. 2^60 + 128, which become 2^60 in a double, are shown in PiB;
\* the unit index stays within the table, so the assertion exponent < 8
\* holds.
C11_SmallestUnitThatFits ==
    \A i \in SizeLines :
        LET n == stdout[i].size
            d == stdout[i].size_display
            k == d.exponent - 1
        IN  /\ d.exponent < 8
            /\ k \in 0..6
            /\ d.unit = UnitNames[k + 1]
            /\ IF RoundsToPiBLimit(n)
               THEN k = 5
               ELSE /\ ScaledFits(n, k)
                    /\ \A j \in 0..6 : ScaledFits(n, j) => k <= j

\* the largest off_t has been printed, in EiB
C11_Witness ==
    /\ pc = "done"
    /\ \E i \in SizeLines :
         /\ stdout[i].size = Ones(63)
         /\ stdout[i].size_display.exponent = 7
         /\ stdout[i].size_display.unit = "EiB"

-----------------------------------------------------------------------------
(* The order of the registrations *)

\* the add_to_pool calls made for node n, by their position in the run
RegistrationsOf(n) == {i \in DOMAIN calls : calls[i].node = n}

\* crawl_tree is at work on node n, or on a directory beneath it
BeingCrawled(n) == \E k \in DOMAIN stack : stack[k].node = n

\* no node is registered twice, a registration carries the node's own pair,
\* and it comes after the registration of every node beneath it
SubtreeRegisteredFirst ==
    /\ \A n \in NodeIds : Cardinality(RegistrationsOf(n)) <= 1
    /\ \A i \in DOMAIN calls :
           /\ calls[i].node \in NodeIds
           /\ calls[i].key = IdOf(nodes[calls[i].node])
           /\ \A c \in Descendants(calls[i].node) :
                  \E j \in 1..(i - 1) : calls[j].node = c

\* a registered node never changes again, and the step that registers a
\* node adds to its parent's aggregate what the node holds at that moment:
\* its content size and, for a directory, its aggregate; nothing when the
\* pair was known
AggregateFinalAtDecision ==
    /\ \A n \in NodeIds : Registered(n) => nodes'[n] = nodes[n]
    /\ calls' # calls =>
           LET c == calls'[Len(calls')]
               d == c.node
           IN  \E p \in NodeIds :
                   /\ \E i \in DOMAIN nodes'[p].child : nodes'[p].child[i] = d
                   /\ nodes'[p].add_content_size
                          = IF c.result
                            THEN Add64(nodes[p].add_content_size, bytes_content(nodes'[d]))
                            ELSE nodes[p].add_content_size

\* C12: the pool is consulted exactly once for every node of the tree, for
\* a directory only after the crawl of its subtree has returned, so every
\* descendant is registered before the directory and the directory's
\* aggregate is final when its parent decides whether to count it.
C12_EveryNodeRegisteredOnce ==
    /\ [](env.root_probe = "ok" =>
              /\ SubtreeRegisteredFirst
              /\ \A n \in NodeIds : Registered(n) <=> ~ BeingCrawled(n))
    /\ [][AggregateFinalAtDecision]_vars

\* C12, amended: the pool is consulted exactly once for every node of the
\* tree but the root, which is never registered; for a directory only
\* after the crawl of its subtree has returned, so every descendant is
\* registered before the directory and the directory's aggregate is final
\* when its parent decides whether to count it.
C12_EveryEntryRegisteredOnce ==
    /\ [](env.root_probe = "ok" =>
              /\ SubtreeRegisteredFirst
              /\ ~ Registered(1)
              /\ \A n \in NodeIds \ {1} : Registered(n) <=> ~ BeingCrawled(n))
    /\ [][AggregateFinalAtDecision]_vars

\* a finished run in which a directory was counted with a non-empty
\* aggregate after a directory beneath it, itself registered after its own
\* entry, and the root was not registered
C12_Witness ==
    /\ pc = "done"
    /\ ~ Registered(1)
    /\ \E i, j, k \in DOMAIN calls :
         /\ i < j /\ j < k
         /\ calls[k].result
         /\ IsDirectory(calls[k].node) /\ IsDirectory(calls[j].node)
         /\ IsChild(calls[k].node, calls[j].node)
         /\ IsChild(calls[j].node, calls[i].node)
         /\ nodes[calls[k].node].add_content_size # Zero64

=============================================================================
